---- MODULE Spec2Model ----
(***************************************************************************)
(* The Event Repository of src/src/lib/supabase.ts: the module-level       *)
(* client and configuration flag, the Sample Event Set, the row mapper     *)
(* and the three read operations getEvents, getEventBySlug and             *)
(* getFeaturedEvents, run as concurrent asynchronous invocations against   *)
(* a remote events table.                                                  *)
(***************************************************************************)
EXTENDS Integers, Sequences, FiniteSets, Bags, TLC

VARIABLES
    env,                    \* import.meta.env, the live environment
    startEnv,               \* the environment as it was when the module was loaded
    supabaseUrl,            \* const supabaseUrl
    supabaseKey,            \* const supabaseKey
    supabase,               \* export const supabase (client or null)
    isSupabaseConfigured,   \* const isSupabaseConfigured
    sampleEvents,           \* const sampleEvents (a JS array, mutable in principle)
    events,                 \* the remote table 'events'
    inflight,               \* invocations suspended at their await (a bag)
    last,                   \* the invocation that completed last, with what it returned
    input,                  \* the arguments of the function under study
    output                  \* what the function under study returned

vars == <<env, startEnv, supabaseUrl, supabaseKey, supabase, isSupabaseConfigured,
          sampleEvents, events, inflight, last, input, output>>

----------------------------------------------------------------------------
(* Bounds of the model *)

\* invocations that may be suspended at their await at the same time
MaxInFlight == 2

\* rows the remote table may hold
MaxRows == 5

----------------------------------------------------------------------------
(* JavaScript values, tagged by their type *)

Undefined == [t |-> "undefined"]
Null == [t |-> "null"]
Str(s) == [t |-> "string", v |-> s]
Num(n) == [t |-> "number", v |-> n]
Bool(b) == [t |-> "boolean", v |-> b]
Arr(s) == [t |-> "array", v |-> s]
Obj(f) == [t |-> "object", v |-> f]
DateOf(n) == [t |-> "date", v |-> n]
InvalidDate == [t |-> "invalidDate"]

\* ToBoolean: undefined, null, '', 0 and false are falsy; everything else,
\* the empty array included, is truthy
Truthy(x) ==
    CASE x.t \in {"undefined", "null"} -> FALSE
      [] x.t = "string" -> x.v # ""
      [] x.t = "number" -> x.v # 0
      [] x.t = "boolean" -> x.v
      [] OTHER -> TRUE

\* plausible slip: the default is left out
OrElseNoDefault(a, b) == a

\* plausible slip: a ?? b, which keeps a present falsy value
OrElseNullish(a, b) == IF a.t \in {"undefined", "null"} THEN b ELSE a

\* a || b
OrElse(a, b) == IF Truthy(a) THEN a ELSE b

\* o.k : undefined when the property is absent (or o is a primitive)
Get(o, k) ==
    IF o.t = "object" /\ k \in DOMAIN o.v THEN o.v[k] ELSE Undefined

\* reading a property of null or undefined throws a TypeError
PropertyReadThrows(o) == o.t \in {"undefined", "null"}

\* timestamps of the ISO strings that occur, as yyyymmdd
DateTable ==
    ("2026-01-05T09:00:00" :> 20260105) @@ ("2026-02-05T09:00:00" :> 20260205) @@
    ("2026-03-05T09:00:00" :> 20260305) @@ ("2026-03-15T09:00:00" :> 20260315) @@
    ("2026-03-15T12:00:00" :> 20260316) @@ ("2026-04-05T09:00:00" :> 20260405) @@
    ("2026-04-20T13:00:00" :> 20260420) @@ ("2026-04-20T16:00:00" :> 20260421) @@
    ("2026-05-05T09:00:00" :> 20260505) @@ ("2025-12-01T00:00:00" :> 20251201)

\* new Date(x)
NewDate(x) ==
    CASE x.t = "string" ->
             IF x.v \in DOMAIN DateTable THEN DateOf(DateTable[x.v]) ELSE InvalidDate
      [] x.t = "null" -> DateOf(0)
      [] x.t = "number" -> DateOf(x.v)
      [] OTHER -> InvalidDate

----------------------------------------------------------------------------
(* Module load: the client and the configuration flag *)

EnvUrl == "https://dei.supabase.co"
EnvKey == "anon-key"

\* the environments: the endpoint unset or set, the key set to '' or to a value
EnvValues ==
    [PUBLIC_SUPABASE_URL : {Undefined, Str(EnvUrl)},
     PUBLIC_SUPABASE_ANON_KEY : {Str(""), Str(EnvKey)}]

\* createClient(url, key): a client bound to the endpoint and the key
createClient(url, key) == Obj([supabaseUrl |-> url, supabaseKey |-> key])

\* plausible slip: the client is created when either credential is present
SupabaseClientEither(url, key) ==
    IF Truthy(url) \/ Truthy(key) THEN createClient(url, key) ELSE Null

\* supabaseUrl && supabaseKey ? createClient(supabaseUrl, supabaseKey) : null
SupabaseClient(url, key) ==
    IF Truthy(url) /\ Truthy(key) THEN createClient(url, key) ELSE Null

----------------------------------------------------------------------------
(* The row mapper *)

\* dbEvent.end_date ? new Date(dbEvent.end_date) : undefined
EndDateOf(dbEvent) ==
    IF Truthy(Get(dbEvent, "end_date")) THEN NewDate(Get(dbEvent, "end_date"))
    ELSE Undefined

\* mapDbEventToEvent(dbEvent), for a dbEvent whose properties can be read
mapDbEventToEvent(dbEvent) ==
    Obj([id |-> Get(dbEvent, "id"),
         title |-> Get(dbEvent, "title"),
         slug |-> Get(dbEvent, "slug"),
         description |-> Get(dbEvent, "description"),
         excerpt |-> OrElse(Get(dbEvent, "excerpt"), Str("")),
         startDate |-> NewDate(Get(dbEvent, "start_date")),
         endDate |-> EndDateOf(dbEvent),
         timezone |-> OrElse(Get(dbEvent, "timezone"), Str("Asia/Jakarta")),
         locationType |-> OrElse(Get(dbEvent, "location_type"), Str("virtual")),
         venue |-> Get(dbEvent, "venue"),
         address |-> Get(dbEvent, "address"),
         city |-> Get(dbEvent, "city"),
         virtualLink |-> Get(dbEvent, "virtual_link"),
         coverImage |-> OrElse(Get(dbEvent, "cover_image"), Str("")),
         category |-> Get(dbEvent, "category"),
         tags |-> OrElse(Get(dbEvent, "tags"), Arr(<<>>)),
         status |-> OrElse(Get(dbEvent, "status"), Str("upcoming")),
         registrationUrl |-> Get(dbEvent, "registration_url"),
         maxAttendees |-> Get(dbEvent, "max_attendees"),
         registeredCount |-> OrElse(Get(dbEvent, "registered_count"), Num(0)),
         createdAt |-> NewDate(Get(dbEvent, "created_at")),
         updatedAt |-> NewDate(Get(dbEvent, "updated_at")),
         publishedAt |-> NewDate(Get(dbEvent, "published_at")),
         isFeatured |-> OrElse(Get(dbEvent, "is_featured"), Bool(FALSE))])

\* data.map(mapDbEventToEvent) throws when a row's properties cannot be read
\* (or when data has no map method)
MapRowsThrows(data) ==
    \/ data.t # "array"
    \/ \E i \in 1..Len(data.v) : PropertyReadThrows(data.v[i])

\* data.map(mapDbEventToEvent)
MapRows(data) == Arr([i \in 1..Len(data.v) |-> mapDbEventToEvent(data.v[i])])

----------------------------------------------------------------------------
(* The Sample Event Set *)

SampleEvent1 ==
    Obj([id |-> Str("1"),
         title |-> Str("DEI Workshop: Introduction to Data Engineering"),
         slug |-> Str("intro-to-data-engineering"),
         description |-> Str("Join us for an introductory workshop on data engineering fundamentals."),
         excerpt |-> Str("An introductory workshop covering data engineering fundamentals."),
         startDate |-> NewDate(Str("2026-03-15T09:00:00")),
         endDate |-> NewDate(Str("2026-03-15T12:00:00")),
         timezone |-> Str("Asia/Jakarta"),
         locationType |-> Str("virtual"),
         virtualLink |-> Str("https://zoom.us/j/example"),
         coverImage |-> Str(""),
         category |-> Str("Workshop"),
         tags |-> Arr(<<Str("beginner"), Str("data-engineering"), Str("etl")>>),
         status |-> Str("upcoming"),
         maxAttendees |-> Num(100),
         registeredCount |-> Num(45),
         createdAt |-> DateOf(20261103),
         updatedAt |-> DateOf(20261103),
         publishedAt |-> DateOf(20261103),
         isFeatured |-> Bool(TRUE),
         registrationUrl |-> Str("https://forms.google.com/example")])

SampleEvent2 ==
    Obj([id |-> Str("2"),
         title |-> Str("Building Data Pipelines with Apache Airflow"),
         slug |-> Str("data-pipelines-airflow"),
         description |-> Str("Hands-on workshop on building and scheduling data pipelines using Apache Airflow."),
         excerpt |-> Str("Learn to build and schedule data pipelines using Apache Airflow."),
         startDate |-> NewDate(Str("2026-04-20T13:00:00")),
         endDate |-> NewDate(Str("2026-04-20T16:00:00")),
         timezone |-> Str("Asia/Jakarta"),
         locationType |-> Str("hybrid"),
         city |-> Str("Jakarta"),
         venue |-> Str("Tech Hub Jakarta"),
         coverImage |-> Str(""),
         category |-> Str("Workshop"),
         tags |-> Arr(<<Str("airflow"), Str("pipelines"), Str("automation")>>),
         status |-> Str("upcoming"),
         maxAttendees |-> Num(50),
         registeredCount |-> Num(23),
         createdAt |-> DateOf(20261103),
         updatedAt |-> DateOf(20261103),
         publishedAt |-> DateOf(20261103),
         isFeatured |-> Bool(TRUE),
         registrationUrl |-> Str("https://forms.google.com/example2")])

\* const sampleEvents as the module initialises it
SampleEventSet == Arr(<<SampleEvent1, SampleEvent2>>)

----------------------------------------------------------------------------
(* The remote table 'events' and the queries the operations send to it *)

\* a fully populated row of the table, as the remote returns it
DbRow(id, slug, start, featured, status) ==
    Obj([id |-> Str(id),
         title |-> Str("Community meetup"),
         slug |-> Str(slug),
         description |-> Str("A community meetup."),
         excerpt |-> Str("Meetup"),
         start_date |-> Str(start),
         end_date |-> Null,
         timezone |-> Str("Asia/Makassar"),
         location_type |-> Str("physical"),
         venue |-> Str("Campus"),
         address |-> Str("Jl. Sudirman 1"),
         city |-> Str("Makassar"),
         virtual_link |-> Null,
         cover_image |-> Str("/cover.png"),
         category |-> Str("Meetup"),
         tags |-> Arr(<<Str("community")>>),
         status |-> Str(status),
         registration_url |-> Null,
         max_attendees |-> Num(30),
         registered_count |-> Num(7),
         created_at |-> Str("2025-12-01T00:00:00"),
         updated_at |-> Str("2025-12-01T00:00:00"),
         published_at |-> Str("2025-12-01T00:00:00"),
         is_featured |-> Bool(featured)])

\* a row whose nullable columns are all NULL
SparseRow(id, slug, start, status) ==
    Obj([id |-> Str(id),
         title |-> Str("Past meetup"),
         slug |-> Str(slug),
         description |-> Str("A past meetup."),
         excerpt |-> Null,
         start_date |-> Str(start),
         end_date |-> Null,
         timezone |-> Null,
         location_type |-> Null,
         venue |-> Null,
         address |-> Null,
         city |-> Null,
         virtual_link |-> Null,
         cover_image |-> Null,
         category |-> Str("Meetup"),
         tags |-> Null,
         status |-> Str(status),
         registration_url |-> Null,
         max_attendees |-> Null,
         registered_count |-> Null,
         created_at |-> Str("2025-12-01T00:00:00"),
         updated_at |-> Str("2025-12-01T00:00:00"),
         published_at |-> Null,
         is_featured |-> Null])

\* the rows the table is drawn from, in the order they were inserted: a
\* featured upcoming row, a past row that repeats its slug and has its nullable
\* columns NULL, then featured upcoming rows, one with the slug of a sample event
RowPool ==
    <<DbRow("a", "meetup-a", "2026-05-05T09:00:00", TRUE, "upcoming"),
      SparseRow("e", "meetup-a", "2026-04-05T09:00:00", "completed"),
      DbRow("d", "intro-to-data-engineering", "2026-02-05T09:00:00", TRUE, "upcoming"),
      DbRow("b", "meetup-b", "2026-01-05T09:00:00", TRUE, "upcoming"),
      DbRow("c", "meetup-c", "2026-03-05T09:00:00", TRUE, "upcoming"),
      DbRow("f", "meetup-f", "2026-03-15T09:00:00", TRUE, "upcoming"),
      DbRow("g", "meetup-g", "2026-04-20T13:00:00", FALSE, "upcoming")>>

\* the tables: the first n rows inserted, for every n up to the bound
Tables == {{RowPool[i] : i \in 1..n} : n \in 0..MaxRows}

\* the slugs getEventBySlug is called with
Slugs == {"intro-to-data-engineering", "data-pipelines-airflow", "meetup-a", "nonexistent"}

\* the value of the timestamp column start_date
StartOf(row) == NewDate(Get(row, "start_date")).v

\* .order('start_date', { ascending: true })
RECURSIVE OrderByStartDate(_)
OrderByStartDate(rows) ==
    IF rows = {} THEN <<>>
    ELSE LET first == CHOOSE r \in rows : \A q \in rows : StartOf(r) <= StartOf(q)
         IN  <<first>> \o OrderByStartDate(rows \ {first})

\* plausible slip: the limit is left out of the query
NoLimit(rows, n) == rows

\* .limit(n)
Limit(rows, n) == IF Len(rows) <= n THEN rows ELSE SubSeq(rows, 1, n)

\* .limit(3)
FeaturedLimit == 3

Resolved(data, error) == [kind |-> "resolved", data |-> data, error |-> error]
Rejected == [kind |-> "rejected", data |-> Undefined, error |-> Undefined]
NoResponse == [kind |-> "none", data |-> Undefined, error |-> Undefined]

\* the error object the remote client reports
PostgrestError(code) == Obj([code |-> Str(code)])

\* from('events').select('*').order('start_date', { ascending: true })
SelectAllEvents(tbl) == Resolved(Arr(OrderByStartDate(tbl)), Null)

\* from('events').select('*').eq('slug', slug).single(): the row when exactly
\* one matches, an error otherwise
SelectEventBySlug(tbl, slug) ==
    LET hits == {r \in tbl : Get(r, "slug") = Str(slug)}
    IN  IF Cardinality(hits) = 1
        THEN Resolved(CHOOSE r \in hits : TRUE, Null)
        ELSE Resolved(Null, PostgrestError("PGRST116"))

\* from('events').select('*').eq('is_featured', true).eq('status', 'upcoming')
\*   .order('start_date', { ascending: true }).limit(3)
SelectFeaturedEvents(tbl) ==
    LET hits == {r \in tbl : Get(r, "is_featured") = Bool(TRUE)
                              /\ Get(r, "status") = Str("upcoming")}
    IN  Resolved(Arr(Limit(OrderByStartDate(hits), FeaturedLimit)), Null)

\* what the query of an invocation yields on the table
Answer(op, slug, tbl) ==
    CASE op = "getEvents" -> SelectAllEvents(tbl)
      [] op = "getEventBySlug" -> SelectEventBySlug(tbl, slug)
      [] op = "getFeaturedEvents" -> SelectFeaturedEvents(tbl)

\* a reply whose rows cannot be mapped: a null among the rows of a list, a
\* primitive in place of the single row
Malformed(op, slug, tbl) ==
    IF op = "getEventBySlug" THEN Resolved(Str("not a row"), Null)
    ELSE Resolved(Arr(Answer(op, slug, tbl).data.v \o <<Null>>), Null)

\* every way the awaited remote call can end
RemoteOutcomes(op, slug, tbl) ==
    {Answer(op, slug, tbl),
     Resolved(Null, PostgrestError("500")),
     Resolved(Null, Null),
     Malformed(op, slug, tbl),
     Rejected}

----------------------------------------------------------------------------
(* How an invocation ends: the value its promise resolves to, or the       *)
(* exception it rejects with, and the diagnostics it wrote to the console  *)

Return(value, logs) == [kind |-> "return", value |-> value, logs |-> logs]
Throw == [kind |-> "throw", value |-> Undefined, logs |-> <<>>]
NoOutcome == [kind |-> "none", value |-> Undefined, logs |-> <<>>]

\* plausible slip: the body runs without its try/catch
NoCatch(body, handler) == body

\* try { body } catch (error) { handler }
TryCatch(body, handler) == IF body.kind = "throw" THEN handler ELSE body

\* plausible slip: the callback assigns (e.slug = slug) where it should
\* compare, and find returns the first sample event for every slug
FindFirstSample(samples, slug) == IF Len(samples.v) = 0 THEN Null ELSE samples.v[1]

\* sampleEvents.find(e => e.slug === slug) || null
FindBySlug(samples, slug) ==
    LET hits == {i \in 1..Len(samples.v) : Get(samples.v[i], "slug") = Str(slug)}
    IN  IF hits = {} THEN Null
        ELSE samples.v[CHOOSE i \in hits : \A j \in hits : i <= j]

\* sampleEvents.filter(e => e.isFeatured)
FilterFeatured(samples) ==
    Arr(SelectSeq(samples.v, LAMBDA e : Truthy(Get(e, "isFeatured"))))

\* data?.length
OptionalLength(data) ==
    CASE data.t \in {"undefined", "null"} -> Undefined
      [] data.t = "array" -> Num(Len(data.v))
      [] data.t = "string" -> Num(Len(data.v))
      [] OTHER -> Undefined

(* getEvents *)

getEventsNotConfigured(samples) ==
    Return(samples, <<"log: Supabase not configured, returning sample events">>)

\* plausible slip: an error yields an empty list
getEventsOnErrorEmpty(samples) ==
    Return(Arr(<<>>), <<"error: Error fetching events:">>)

getEventsOnError(samples) ==
    Return(samples, <<"error: Error fetching events:">>)

\* plausible slip: the rows are fetched and the samples returned all the same
getEventsOnDataSamples(samples, data) == Return(samples, <<>>)

\* return data ? data.map(mapDbEventToEvent) : sampleEvents
getEventsOnData(samples, data) ==
    IF Truthy(data)
    THEN IF MapRowsThrows(data) THEN Throw ELSE Return(MapRows(data), <<>>)
    ELSE Return(samples, <<>>)

getEventsTry(samples, resp) ==
    IF resp.kind = "rejected" THEN Throw
    ELSE IF Truthy(resp.error) THEN getEventsOnError(samples)
    ELSE getEventsOnData(samples, resp.data)

getEventsOnCatch(samples) ==
    Return(samples, <<"error: Error in getEvents:">>)

getEventsAwaited(samples, resp) ==
    TryCatch(getEventsTry(samples, resp), getEventsOnCatch(samples))

(* getEventBySlug *)

getEventBySlugNotConfigured(samples, slug) ==
    Return(FindBySlug(samples, slug), <<>>)

\* plausible slip: an error yields null without the search of the samples
getEventBySlugOnErrorNull(samples, slug) ==
    Return(Null, <<"error: Error fetching event:">>)

getEventBySlugOnError(samples, slug) ==
    Return(FindBySlug(samples, slug), <<"error: Error fetching event:">>)

\* return data ? mapDbEventToEvent(data) : null
getEventBySlugOnData(data) ==
    IF Truthy(data) THEN Return(mapDbEventToEvent(data), <<>>) ELSE Return(Null, <<>>)

getEventBySlugTry(samples, slug, resp) ==
    IF resp.kind = "rejected" THEN Throw
    ELSE IF Truthy(resp.error) THEN getEventBySlugOnError(samples, slug)
    ELSE getEventBySlugOnData(resp.data)

\* plausible slip: the catch block returns without logging
getEventBySlugOnCatchSilent(samples, slug) ==
    Return(FindBySlug(samples, slug), <<>>)

getEventBySlugOnCatch(samples, slug) ==
    Return(FindBySlug(samples, slug), <<"error: Error in getEventBySlug:">>)

getEventBySlugAwaited(samples, slug, resp) ==
    TryCatch(getEventBySlugTry(samples, slug, resp), getEventBySlugOnCatch(samples, slug))

(* getFeaturedEvents *)

getFeaturedEventsNotConfigured(samples) == Return(FilterFeatured(samples), <<>>)

getFeaturedEventsOnError(samples) ==
    Return(FilterFeatured(samples), <<"error: Error fetching featured events:">>)

\* plausible slip: the test of getEvents, data ? ... : ..., which an empty
\* array passes
getFeaturedEventsOnDataTruthy(samples, data) ==
    IF Truthy(data)
    THEN IF MapRowsThrows(data) THEN Throw ELSE Return(MapRows(data), <<>>)
    ELSE Return(FilterFeatured(samples), <<>>)

\* return data?.length ? data.map(mapDbEventToEvent) : sampleEvents.filter(e => e.isFeatured)
getFeaturedEventsOnData(samples, data) ==
    IF Truthy(OptionalLength(data))
    THEN IF MapRowsThrows(data) THEN Throw ELSE Return(MapRows(data), <<>>)
    ELSE Return(FilterFeatured(samples), <<>>)

getFeaturedEventsTry(samples, resp) ==
    IF resp.kind = "rejected" THEN Throw
    ELSE IF Truthy(resp.error) THEN getFeaturedEventsOnError(samples)
    ELSE getFeaturedEventsOnData(samples, resp.data)

getFeaturedEventsOnCatch(samples) ==
    Return(FilterFeatured(samples), <<"error: Error in getFeaturedEvents:">>)

getFeaturedEventsAwaited(samples, resp) ==
    TryCatch(getFeaturedEventsTry(samples, resp), getFeaturedEventsOnCatch(samples))

\* the branch if (!isSupabaseConfigured) of each operation
NotConfiguredOutcome(op, slug, samples) ==
    CASE op = "getEvents" -> getEventsNotConfigured(samples)
      [] op = "getEventBySlug" -> getEventBySlugNotConfigured(samples, slug)
      [] op = "getFeaturedEvents" -> getFeaturedEventsNotConfigured(samples)

\* the rest of each operation, run when its awaited query has ended
AwaitedOutcome(op, slug, samples, resp) ==
    CASE op = "getEvents" -> getEventsAwaited(samples, resp)
      [] op = "getEventBySlug" -> getEventBySlugAwaited(samples, slug, resp)
      [] op = "getFeaturedEvents" -> getFeaturedEventsAwaited(samples, resp)

----------------------------------------------------------------------------
(* The state machine *)

Completed(op, slug, resp, outcome, queries) ==
    [op |-> op, slug |-> slug, resp |-> resp, outcome |-> outcome, queries |-> queries]

NoCall == Completed("none", "", NoResponse, NoOutcome, 0)

\* no function is under study
NoInput == [fn |-> "none"]
NoOutput == [fn |-> "none"]

\* the module is loaded: the credentials are read once, the client is made
Init ==
    /\ env \in EnvValues
    /\ startEnv = env
    /\ supabaseUrl = OrElse(env.PUBLIC_SUPABASE_URL, Str(""))
    /\ supabaseKey = OrElse(env.PUBLIC_SUPABASE_ANON_KEY, Str(""))
    /\ supabase = SupabaseClient(supabaseUrl, supabaseKey)
    /\ isSupabaseConfigured = Truthy(supabase)
    /\ sampleEvents = SampleEventSet
    /\ events \in Tables
    /\ inflight = EmptyBag
    /\ last = NoCall
    /\ input = NoInput
    /\ output = NoOutput

\* an operation is called: it returns at once when the module is not
\* configured, and otherwise sends its one query and suspends at the await
Begin(op, slug) ==
    IF ~isSupabaseConfigured
    THEN /\ last' = Completed(op, slug, NoResponse,
                              NotConfiguredOutcome(op, slug, sampleEvents), 0)
         /\ UNCHANGED inflight
    ELSE /\ BagCardinality(inflight) < MaxInFlight
         /\ inflight' = inflight (+) SetToBag({[op |-> op, slug |-> slug, queries |-> 1]})
         /\ UNCHANGED last

\* no operation writes to the module-level constants, nor to the table
ModuleState == <<env, startEnv, supabaseUrl, supabaseKey, supabase,
                 isSupabaseConfigured, sampleEvents, events, input, output>>

GetEvents == Begin("getEvents", "") /\ UNCHANGED ModuleState

GetEventBySlug == \E slug \in Slugs : Begin("getEventBySlug", slug) /\ UNCHANGED ModuleState

\* plausible slip: the fallback takes its entries out of the array with
\* sampleEvents.splice(0, 3) to apply the limit of the query
GetFeaturedEventsSplice ==
    /\ Begin("getFeaturedEvents", "")
    /\ sampleEvents' = IF isSupabaseConfigured THEN sampleEvents ELSE Arr(<<>>)
    /\ UNCHANGED <<env, startEnv, supabaseUrl, supabaseKey, supabase,
                   isSupabaseConfigured, events, input, output>>

GetFeaturedEvents == Begin("getFeaturedEvents", "") /\ UNCHANGED ModuleState

\* plausible slip: a query that failed is issued once more before the
\* invocation gives up
ResumeRetry ==
    \E call \in BagToSet(inflight) :
      \E resp \in RemoteOutcomes(call.op, call.slug, events) :
        IF (resp.kind = "rejected" \/ Truthy(resp.error)) /\ call.queries < 2
        THEN /\ inflight' = (inflight (-) SetToBag({call}))
                                (+) SetToBag({[call EXCEPT !.queries = @ + 1]})
             /\ UNCHANGED last
             /\ UNCHANGED ModuleState
        ELSE /\ inflight' = inflight (-) SetToBag({call})
             /\ last' = Completed(call.op, call.slug, resp,
                                  AwaitedOutcome(call.op, call.slug, sampleEvents, resp),
                                  call.queries)
             /\ UNCHANGED ModuleState

\* the awaited query of a suspended invocation ends, and the invocation
\* runs to its return
Resume ==
    \E call \in BagToSet(inflight) :
      \E resp \in RemoteOutcomes(call.op, call.slug, events) :
        /\ inflight' = inflight (-) SetToBag({call})
        /\ last' = Completed(call.op, call.slug, resp,
                             AwaitedOutcome(call.op, call.slug, sampleEvents, resp),
                             call.queries)
        /\ UNCHANGED ModuleState

\* the environment changes after the module was loaded
EnvChange ==
    /\ env' \in EnvValues \ {env}
    /\ UNCHANGED <<startEnv, supabaseUrl, supabaseKey, supabase, isSupabaseConfigured,
                   sampleEvents, events, inflight, last, input, output>>

Next ==
    \/ GetEvents
    \/ GetEventBySlug
    \/ GetFeaturedEvents
    \/ Resume
    \/ EnvChange

Spec == Init /\ [][Next]_vars

----------------------------------------------------------------------------
(* Vocabulary of the properties *)

\* an invocation has completed
Done == last.op # "none"

\* the module was loaded with both credentials non-empty
NonEmpty(x) == x.t = "string" /\ x.v # ""
StartConfigured ==
    NonEmpty(startEnv.PUBLIC_SUPABASE_URL) /\ NonEmpty(startEnv.PUBLIC_SUPABASE_ANON_KEY)

\* the three failure conditions of the invocation that completed last
NotConfigured == Done /\ last.resp.kind = "none"
ErrorReported == Done /\ last.resp.kind = "resolved" /\ Truthy(last.resp.error)
CallThrew == Done /\ last.resp.kind = "rejected"
Failure == NotConfigured \/ ErrorReported \/ CallThrew

\* the query succeeded: no error, and a list of n rows
SucceededWithRows(n) ==
    /\ Done
    /\ last.resp.kind = "resolved"
    /\ ~Truthy(last.resp.error)
    /\ last.resp.data.t = "array"
    /\ Len(last.resp.data.v) = n

\* the rows of the table that the featured query selects
FeaturedUpcoming ==
    {r \in events : Get(r, "is_featured") = Bool(TRUE) /\ Get(r, "status") = Str("upcoming")}

\* the fallback value of each operation, written out from the Sample Event Set
ExpectedFallback(op, slug) ==
    CASE op = "getEvents" -> Arr(<<SampleEvent1, SampleEvent2>>)
      [] op = "getFeaturedEvents" -> Arr(<<SampleEvent1, SampleEvent2>>)
      [] op = "getEventBySlug" ->
           IF slug = "intro-to-data-engineering" THEN SampleEvent1
           ELSE IF slug = "data-pipelines-airflow" THEN SampleEvent2
           ELSE Null

----------------------------------------------------------------------------
(* Properties *)

\* C1: whatever the configuration and however the remote call ends (rows,
\* no rows, null data, a reported error, a thrown exception, rows the mapper
\* throws on), each operation completes by returning a value: no invocation
\* ends with an exception.
C1_NeverPropagatesFailure == Done => last.outcome.kind = "return"

\* an operation returned although the mapper threw on a row of the reply
C1_Witness ==
    /\ Done
    /\ last.resp.kind = "resolved"
    /\ ~Truthy(last.resp.error)
    /\ last.resp.data.t = "array"
    /\ MapRowsThrows(last.resp.data)
    /\ last.outcome.kind = "return"

\* C2: when the module is not configured, or the query reports an error, or
\* the call throws, getEvents returns exactly the Sample Event Set: two
\* entries, ids '1' then '2', none modified.
C2_GetEventsFallback ==
    (last.op = "getEvents" /\ Failure) =>
        /\ last.outcome.kind = "return"
        /\ last.outcome.value = Arr(<<SampleEvent1, SampleEvent2>>)
        /\ Len(last.outcome.value.v) = 2
        /\ last.outcome.value.v[1].v.id = Str("1")
        /\ last.outcome.value.v[2].v.id = Str("2")

\* getEvents returned the samples after the remote reported an error
C2_Witness ==
    /\ last.op = "getEvents"
    /\ ErrorReported
    /\ last.outcome.value = SampleEventSet

\* C3 (as claimed): when configured and the query succeeds with zero rows,
\* getEvents returns the Sample Event Set and not an empty sequence.
C3_ZeroRowsFallBack ==
    (last.op = "getEvents" /\ SucceededWithRows(0)) =>
        last.outcome.value = Arr(<<SampleEvent1, SampleEvent2>>)

\* C4: in every case the sequence getFeaturedEvents returns has at most 3
\* elements.
C4_FeaturedAtMostThree ==
    (last.op = "getFeaturedEvents" /\ last.outcome.kind = "return") =>
        /\ last.outcome.value.t = "array"
        /\ Len(last.outcome.value.v) <= 3

\* the table holds more than three featured upcoming rows and
\* getFeaturedEvents returned three mapped rows
C4_Witness ==
    /\ last.op = "getFeaturedEvents"
    /\ Cardinality(FeaturedUpcoming) > 3
    /\ SucceededWithRows(3)
    /\ Len(last.outcome.value.v) = 3
    /\ last.outcome.value # SampleEventSet

\* C5: when the module is not configured, or the featured query reports an
\* error or throws, or succeeds with zero rows, getFeaturedEvents returns
\* exactly the sample entries whose isFeatured is true (both samples), in
\* sample order.
C5_FeaturedFallback ==
    (last.op = "getFeaturedEvents" /\ (Failure \/ SucceededWithRows(0))) =>
        /\ last.outcome.kind = "return"
        /\ last.outcome.value = Arr(<<SampleEvent1, SampleEvent2>>)
        /\ \A i \in 1..Len(last.outcome.value.v) :
              last.outcome.value.v[i].v.isFeatured = Bool(TRUE)

\* the featured query succeeded with zero rows and the samples came back
C5_Witness ==
    /\ last.op = "getFeaturedEvents"
    /\ isSupabaseConfigured
    /\ SucceededWithRows(0)
    /\ last.outcome.value = Arr(<<SampleEvent1, SampleEvent2>>)

\* C6: for every slug, when the module is not configured, or the single-row
\* query reports an error or throws, getEventBySlug returns the sample entry
\* with that slug, and null when no sample has it: 'intro-to-data-engineering'
\* yields sample '1', 'nonexistent' yields null.
C6_SlugFallback ==
    (last.op = "getEventBySlug" /\ Failure) =>
        /\ last.outcome.kind = "return"
        /\ last.outcome.value = ExpectedFallback("getEventBySlug", last.slug)
        /\ last.slug = "intro-to-data-engineering" => last.outcome.value.v.id = Str("1")
        /\ last.slug = "nonexistent" => last.outcome.value = Null
        /\ last.outcome.value # Null => last.outcome.value.v.slug = Str(last.slug)

\* the remote reported an error for the slug of the first sample, and the
\* sample came back
C6_Witness ==
    /\ last.op = "getEventBySlug"
    /\ ErrorReported
    /\ last.slug = "intro-to-data-engineering"
    /\ last.outcome.value = SampleEvent1

\* C7 (as claimed): in each of the three failure conditions each operation
\* emits a log diagnostic and returns the same fallback value.
C7_FailuresLoggedAlike ==
    Failure =>
        /\ last.outcome.kind = "return"
        /\ last.outcome.logs # <<>>
        /\ last.outcome.value = ExpectedFallback(last.op, last.slug)

\* C7 (amended): in each of the three failure conditions each operation
\* returns the same fallback value; it writes one console.error diagnostic
\* when the query reports an error or the call throws; when not configured
\* only getEvents writes a diagnostic, getEventBySlug and getFeaturedEvents
\* write none.
C7_FailuresFallBackAlike ==
    Failure =>
        /\ last.outcome.kind = "return"
        /\ last.outcome.value = ExpectedFallback(last.op, last.slug)
        /\ (ErrorReported \/ CallThrew) => Len(last.outcome.logs) = 1
        /\ NotConfigured => (last.outcome.logs # <<>> <=> last.op = "getEvents")

\* getEventBySlug fell back after the call threw, and logged it
C7_Witness ==
    /\ last.op = "getEventBySlug"
    /\ CallThrew
    /\ last.outcome.logs = <<"error: Error in getEventBySlug:">>
    /\ last.outcome.value = ExpectedFallback(last.op, last.slug)

\* C8: the module is configured if and only if both the endpoint and the key
\* were non-empty when it was loaded; the mode never changes afterwards,
\* whatever operations run and whatever the environment becomes: every
\* invocation queries the remote exactly when the module was loaded
\* configured.
C8_ConfiguredOnceAtStart ==
    /\ isSupabaseConfigured <=> StartConfigured
    /\ Done => (last.resp.kind # "none" <=> StartConfigured)

\* the environment now holds both credentials, the module was loaded without
\* them, and an operation has run in fallback mode since
C8_Witness ==
    /\ ~StartConfigured
    /\ NonEmpty(env.PUBLIC_SUPABASE_URL) /\ NonEmpty(env.PUBLIC_SUPABASE_ANON_KEY)
    /\ NotConfigured
    /\ ~isSupabaseConfigured

\* what an invocation returns when it runs alone from the state the module
\* was loaded in, given the reply of the remote
RunAlone(op, slug, resp) ==
    IF resp.kind = "none" THEN NotConfiguredOutcome(op, slug, SampleEventSet)
    ELSE AwaitedOutcome(op, slug, SampleEventSet, resp)

\* C9: no invocation modifies the Sample Event Set or the configuration
\* flag, so under any interleaving each invocation returns what it returns
\* when run alone against the same reply of the remote.
C9_InterleavingIndependent ==
    /\ sampleEvents = SampleEventSet
    /\ isSupabaseConfigured = Truthy(SupabaseClient(supabaseUrl, supabaseKey))
    /\ Done => last.outcome = RunAlone(last.op, last.slug, last.resp)

\* an invocation completed while two others were suspended at their await
C9_Witness ==
    /\ Done
    /\ last.resp.kind = "resolved"
    /\ BagCardinality(inflight) >= 2
    /\ last.outcome = RunAlone(last.op, last.slug, last.resp)

\* C10: when configured and the query succeeds with one or more rows,
\* getEvents returns one mapped Event per row, in the order the rows were
\* returned (start time ascending), as many as the rows of the table, and no
\* entry of the Sample Event Set.
C10_GetEventsMapsRows ==
    (\E n \in 1..Len(RowPool) :
        /\ last.op = "getEvents"
        /\ SucceededWithRows(n)
        /\ ~MapRowsThrows(last.resp.data)) =>
        LET rows == last.resp.data.v
            out == last.outcome.value
        IN  /\ last.outcome.kind = "return"
            /\ out.t = "array"
            /\ Len(out.v) = Len(rows)
            /\ Len(out.v) = Cardinality(events)
            /\ \A i \in 1..Len(rows) :
                  /\ out.v[i] = mapDbEventToEvent(rows[i])
                  /\ out.v[i].v.id = rows[i].v.id
                  /\ out.v[i] \notin {SampleEvent1, SampleEvent2}
            /\ \A i, j \in 1..Len(out.v) :
                  i < j => out.v[i].v.startDate.v <= out.v[j].v.startDate.v

\* getEvents returned the mapped rows of a table of several rows, whose
\* insertion order is not their start-time order
C10_Witness ==
    /\ last.op = "getEvents"
    /\ SucceededWithRows(3)
    /\ ~MapRowsThrows(last.resp.data)
    /\ Len(last.outcome.value.v) = 3
    /\ last.outcome.value.v[1].v.id = Str("d")
    /\ last.outcome.value.v[3].v.id = Str("a")

----------------------------------------------------------------------------
(* The row mapper on its own: one row in, one Event out *)

\* columns a row may lack, hold NULL in, or hold another value in
MaxOverrides == 2

\* the module is loaded from environment e beside table tbl, and no
\* operation of the repository runs
ModuleLoaded(e, tbl) ==
    /\ env = e
    /\ startEnv = e
    /\ supabaseUrl = OrElse(e.PUBLIC_SUPABASE_URL, Str(""))
    /\ supabaseKey = OrElse(e.PUBLIC_SUPABASE_ANON_KEY, Str(""))
    /\ supabase = SupabaseClient(supabaseUrl, supabaseKey)
    /\ isSupabaseConfigured = Truthy(supabase)
    /\ sampleEvents = SampleEventSet
    /\ events = tbl
    /\ inflight = EmptyBag
    /\ last = NoCall

NoEnv == [PUBLIC_SUPABASE_URL |-> Undefined, PUBLIC_SUPABASE_ANON_KEY |-> Str("")]

Repository == <<env, startEnv, supabaseUrl, supabaseKey, supabase, isSupabaseConfigured,
                sampleEvents, events, inflight, last>>

\* the column is not in the row at all
Absent == [t |-> "absent"]

\* what a column can hold instead of the value of the populated row: nothing,
\* NULL, a present falsy value, a value outside the enumeration, a string
\* that is no date
Alternatives(column) ==
    CASE column \in {"excerpt", "timezone", "cover_image", "title", "slug",
                     "description", "category"} -> {Absent, Null, Str("")}
      [] column \in {"location_type", "status"} -> {Absent, Null, Str(""), Str("archived")}
      [] column = "id" -> {Absent, Null, Num(7)}
      [] column = "tags" -> {Absent, Null, Arr(<<>>)}
      [] column = "registered_count" -> {Absent, Null, Num(0)}
      [] column = "is_featured" -> {Absent, Null, Bool(FALSE)}
      [] column \in {"start_date", "published_at"} -> {Absent, Null, Str("soon")}
      [] column = "end_date" -> {Absent, Str("2026-03-15T12:00:00"), Str("")}

OverridableColumns ==
    {"id", "title", "slug", "description", "category", "excerpt", "timezone",
     "location_type", "cover_image", "tags", "status", "registered_count",
     "is_featured", "start_date", "published_at", "end_date"}

PopulatedRow == DbRow("a", "meetup-a", "2026-05-05T09:00:00", TRUE, "upcoming")

\* the row with the columns of ov (a function from columns to alternatives)
\* replaced, or removed where the alternative is Absent
Override(row, ov) ==
    Obj([c \in {d \in DOMAIN row.v : d \notin DOMAIN ov \/ ov[d] # Absent} |->
            IF c \in DOMAIN ov THEN ov[c] ELSE row.v[c]])

\* the overrides: an alternative for each of at most MaxOverrides columns
Overrides ==
    UNION {[cols -> UNION {Alternatives(c) : c \in cols}] : cols \in
              {cs \in SUBSET OverridableColumns : Cardinality(cs) <= MaxOverrides}}

MapperRows ==
    {Override(PopulatedRow, ov) :
        ov \in {o \in Overrides : \A c \in DOMAIN o : o[c] \in Alternatives(c)}}

MapperInit ==
    /\ ModuleLoaded(NoEnv, {})
    /\ input \in {[fn |-> "mapDbEventToEvent", dbEvent |-> r] : r \in MapperRows}
    /\ output = NoOutput

\* mapDbEventToEvent(dbEvent) is called
MapEvent ==
    /\ input.fn = "mapDbEventToEvent"
    /\ output = NoOutput
    /\ output' = [fn |-> "mapDbEventToEvent", event |-> mapDbEventToEvent(input.dbEvent)]
    /\ UNCHANGED <<Repository, input>>

MapperNext == MapEvent

SpecMapper == MapperInit /\ [][MapperNext]_vars

----------------------------------------------------------------------------
(* Properties of the row mapper *)

\* the Event field each column of the table is mapped to
FieldOf(column) ==
    CASE column = "start_date" -> "startDate"
      [] column = "end_date" -> "endDate"
      [] column = "location_type" -> "locationType"
      [] column = "virtual_link" -> "virtualLink"
      [] column = "cover_image" -> "coverImage"
      [] column = "registration_url" -> "registrationUrl"
      [] column = "max_attendees" -> "maxAttendees"
      [] column = "registered_count" -> "registeredCount"
      [] column = "created_at" -> "createdAt"
      [] column = "updated_at" -> "updatedAt"
      [] column = "published_at" -> "publishedAt"
      [] column = "is_featured" -> "isFeatured"
      [] OTHER -> column

\* the columns with a default, and the default of each
DefaultOf ==
    [excerpt |-> Str(""), timezone |-> Str("Asia/Jakarta"), location_type |-> Str("virtual"),
     cover_image |-> Str(""), tags |-> Arr(<<>>), status |-> Str("upcoming"),
     registered_count |-> Num(0), is_featured |-> Bool(FALSE)]

\* the columns without a default that are no timestamps
PlainColumns ==
    {"id", "title", "slug", "description", "category", "venue", "address", "city",
     "virtual_link", "registration_url", "max_attendees"}

TimestampColumns == {"start_date", "created_at", "updated_at", "published_at"}

Mapped == output.fn = "mapDbEventToEvent"

\* the value read back from the mapped Event under the name of the column
ReadBack(column) == output.event.v[FieldOf(column)]

\* the column is in the row and is not NULL
Present(column) ==
    column \in DOMAIN input.dbEvent.v /\ input.dbEvent.v[column] # Null

\* C11: for every row, the mapper puts the default in place of each of
\* excerpt, timezone, locationType, coverImage, tags, status, registeredCount
\* and isFeatured when the column is absent or null; id, title, slug,
\* description and category are passed through unchanged, absent values
\* included, and so is a status or locationType outside the enumeration.
C11_DefaultsForAbsentOrNull ==
    Mapped =>
        /\ \A c \in DOMAIN DefaultOf :
              ~Present(c) => ReadBack(c) = DefaultOf[c]
        /\ \A c \in {"id", "title", "slug", "description", "category"} :
              ReadBack(c) = (IF c \in DOMAIN input.dbEvent.v
                             THEN input.dbEvent.v[c] ELSE Undefined)
        /\ \A c \in {"status", "location_type"} :
              (Present(c) /\ input.dbEvent.v[c] = Str("archived")) =>
                  ReadBack(c) = Str("archived")

\* a row with timezone NULL and no status column was mapped to the defaults
C11_Witness ==
    /\ Mapped
    /\ "timezone" \in DOMAIN input.dbEvent.v
    /\ input.dbEvent.v.timezone = Null
    /\ "status" \notin DOMAIN input.dbEvent.v
    /\ output.event.v.timezone = Str("Asia/Jakarta")
    /\ output.event.v.status = Str("upcoming")

\* C12 (as claimed): reading the mapped values back under the names of the
\* columns recovers every original value; a default is substituted only for a
\* column that is absent or null, never for one that carries a present value
\* ('', 0 and false included).
C12_PresentValuesRecovered ==
    Mapped =>
        \A c \in (DOMAIN DefaultOf) \cup PlainColumns :
            Present(c) => ReadBack(c) = input.dbEvent.v[c]

\* C12 (amended): reading the mapped values back recovers every original
\* value that is truthy, a timestamp as the Date of its instant (an invalid
\* Date when the string is no date, the epoch when start, creation, update or
\* publication time is null, undefined when the end time is falsy); a column
\* without a default comes back as it is, null and absent included; a default
\* is substituted for every falsy value of a column that has one, so for a
\* present '' in timezone, locationType and status too, while '' in excerpt
\* and coverImage, 0 in registeredCount and false in isFeatured come back
\* unchanged because they are the default.
C12_TruthyValuesRecovered ==
    Mapped =>
        LET orig(c) == IF c \in DOMAIN input.dbEvent.v THEN input.dbEvent.v[c] ELSE Undefined
            falsy(x) == x \in {Undefined, Null, Str(""), Num(0), Bool(FALSE)}
        IN  /\ \A c \in DOMAIN DefaultOf :
                  /\ ~falsy(orig(c)) => ReadBack(c) = orig(c)
                  /\ falsy(orig(c)) => ReadBack(c) = DefaultOf[c]
            /\ \A c \in {"timezone", "location_type", "status"} :
                  orig(c) = Str("") => ReadBack(c) # orig(c)
            /\ \A c \in {"excerpt", "cover_image", "registered_count", "is_featured"} :
                  Present(c) => ReadBack(c) = orig(c)
            /\ \A c \in PlainColumns : ReadBack(c) = orig(c)
            /\ \A c \in TimestampColumns :
                  ReadBack(c) =
                      (CASE orig(c) = Null -> DateOf(0)
                         [] orig(c).t = "string" /\ orig(c).v \in DOMAIN DateTable ->
                                DateOf(DateTable[orig(c).v])
                         [] OTHER -> InvalidDate)
            /\ ReadBack("end_date") =
                  (IF falsy(orig("end_date")) THEN Undefined
                   ELSE DateOf(DateTable[orig("end_date").v]))

\* a row with timezone '' and registered_count 0 was mapped: the timezone
\* came back as the default, the count as it was
C12_Witness ==
    /\ Mapped
    /\ Present("timezone") /\ input.dbEvent.v.timezone = Str("")
    /\ Present("registered_count") /\ input.dbEvent.v.registered_count = Num(0)
    /\ output.event.v.timezone = Str("Asia/Jakarta")
    /\ output.event.v.registeredCount = Num(0)

----------------------------------------------------------------------------
(* The Article Feed Adapter: fetchMediumArticles *)

\* items a feed may hold
MaxItems == 3

\* limit: number = 10
DefaultLimit == 10

\* an object with the given properties (names that are no identifiers included)
Item(title, creatorKey, creator, categories, contentKey, content) ==
    Obj(("title" :> title) @@ ("link" :> Str("https://medium.com/p/1")) @@
        ("pubDate" :> Str("Mon, 05 Jan 2026 09:00:00 GMT")) @@
        (creatorKey :> creator) @@ ("categories" :> categories) @@
        (contentKey :> content))

\* the items of the feed: one with every field, one with the fields under
\* the names the parser falls back to, one with neither author nor categories
FeedItems ==
    {Item(Str("Lakehouse"), "dc:creator", Str("Ayu"), Arr(<<Str("data")>>),
          "content:encoded", Str("<p>Lakehouse</p>")),
     Item(Str("Airflow"), "creator", Str("Budi"), Arr(<<Str("airflow")>>),
          "content", Str("Airflow")),
     Item(Undefined, "dc:creator", Undefined, Undefined, "content:encoded", Undefined)}

RECURSIVE SeqsUpTo(_, _)
\* the sequences of at most n elements of S
SeqsUpTo(S, n) ==
    IF n = 0 THEN {<<>>}
    ELSE LET shorter == SeqsUpTo(S, n - 1)
         IN  shorter \cup {Append(q, x) : q \in {r \in shorter : Len(r) = n - 1}, x \in S}

\* every way parser.parseURL(MEDIUM_RSS_URL) can end: a feed with its items,
\* a feed with a null among its items, a feed whose items are null, no feed,
\* an exception
ParseOutcomes ==
    {[kind |-> "resolved", feed |-> Obj([items |-> Arr(q)])] : q \in SeqsUpTo(FeedItems, MaxItems)}
    \cup {[kind |-> "resolved", feed |-> Obj([items |-> Arr(Append(q, Null))])] :
             q \in SeqsUpTo(FeedItems, 1)}
    \cup {[kind |-> "resolved", feed |-> Obj([items |-> Null])],
          [kind |-> "resolved", feed |-> Undefined],
          [kind |-> "rejected", feed |-> Undefined]}

\* the limits the function is called with: none (the default), -1, 0, ...
Limits == {Undefined} \cup {Num(n) : n \in -1..(MaxItems + 1)}

\* the parameter limit, with its default
LimitOf(limit) == IF limit = Undefined THEN DefaultLimit ELSE limit.v

\* plausible slip: the items are not cut to the limit
SliceAll(items, end) == items

\* items.slice(0, end): a negative end counts from the end of the array
Slice(items, end) ==
    LET n == Len(items)
        to == IF end < 0 THEN (IF n + end < 0 THEN 0 ELSE n + end)
              ELSE (IF end > n THEN n ELSE end)
    IN  SubSeq(items, 1, to)

\* the object each item is mapped to
NormalizeItem(item) ==
    Obj(("title" :> OrElse(Get(item, "title"), Str(""))) @@
        ("link" :> OrElse(Get(item, "link"), Str(""))) @@
        ("pubDate" :> OrElse(Get(item, "pubDate"), Str(""))) @@
        ("dc:creator" :> OrElse(OrElse(Get(item, "dc:creator"), Get(item, "creator")),
                                 Str("DEI Team"))) @@
        ("categories" :> OrElse(Get(item, "categories"), Arr(<<>>))) @@
        ("content:encoded" :> OrElse(OrElse(Get(item, "content:encoded"),
                                            Get(item, "content")), Str(""))))

\* feed.items.slice(0, limit).map(...)
fetchMediumArticlesTry(limit, settled) ==
    IF settled.kind = "rejected" THEN Throw
    ELSE IF PropertyReadThrows(settled.feed) THEN Throw
    ELSE LET items == Get(settled.feed, "items")
         IN  IF items.t # "array" THEN Throw
             ELSE LET cut == Slice(items.v, LimitOf(limit))
                  IN  IF \E i \in 1..Len(cut) : PropertyReadThrows(cut[i]) THEN Throw
                      ELSE Return(Arr([i \in 1..Len(cut) |-> NormalizeItem(cut[i])]), <<>>)

\* plausible slip: the catch block logs and throws again
fetchMediumArticlesOnCatchThrow == Throw

fetchMediumArticlesOnCatch == Return(Arr(<<>>), <<"error: Error fetching Medium RSS:">>)

fetchMediumArticlesAwaited(limit, settled) ==
    TryCatch(fetchMediumArticlesTry(limit, settled), fetchMediumArticlesOnCatch)

FeedInit ==
    /\ ModuleLoaded(NoEnv, {})
    /\ input \in {[fn |-> "fetchMediumArticles", limit |-> l, parse |-> p] :
                     l \in Limits, p \in ParseOutcomes}
    /\ output = NoOutput

\* fetchMediumArticles(limit) is called and suspends at await parser.parseURL
FetchMediumArticles ==
    /\ input.fn = "fetchMediumArticles"
    /\ output = NoOutput
    /\ output' = [fn |-> "fetchMediumArticles", pc |-> "await", outcome |-> NoOutcome]
    /\ UNCHANGED <<Repository, input>>

\* parser.parseURL settles and the function runs to its return
ParseURLSettles ==
    /\ output.fn = "fetchMediumArticles"
    /\ output.pc = "await"
    /\ output' = [fn |-> "fetchMediumArticles", pc |-> "done",
                  outcome |-> fetchMediumArticlesAwaited(input.limit, input.parse)]
    /\ UNCHANGED <<Repository, input>>

FeedNext == FetchMediumArticles \/ ParseURLSettles

SpecFeed == FeedInit /\ [][FeedNext]_vars

(* Properties of fetchMediumArticles *)

Fetched == output.fn = "fetchMediumArticles" /\ output.pc = "done"

\* the feed was retrieved and has a list of items, each of them an object
FeedUsable ==
    /\ input.parse.kind = "resolved"
    /\ input.parse.feed.t = "object"
    /\ input.parse.feed.v.items.t = "array"
    /\ \A i \in 1..Len(input.parse.feed.v.items.v) :
          input.parse.feed.v.items.v[i].t = "object"

\* the first limit items of the usable feed, in feed order, each normalised
FirstItemsReturned(limit) ==
    LET items == input.parse.feed.v.items.v
        got == output.outcome.value
    IN  /\ output.outcome.kind = "return"
        /\ got.t = "array"
        /\ Len(got.v) = (IF Len(items) < limit THEN Len(items) ELSE limit)
        /\ Len(got.v) <= limit
        /\ \A i \in 1..Len(got.v) :
              /\ got.v[i].v["title"] = OrElse(Get(items[i], "title"), Str(""))
              /\ got.v[i] = NormalizeItem(items[i])

\* C13 (as claimed): for every feed and every limit, when the feed is
\* retrieved fetchArticles(limit) returns the first limit items in feed order
\* (all of them when the feed has fewer): never more than limit, never
\* re-sorted.
C13_FirstLimitItems ==
    (Fetched /\ FeedUsable) => FirstItemsReturned(LimitOf(input.limit))

\* C13 (amended): the same for every limit that is at least 0 (the default
\* of 10 included).
C13_FirstLimitItemsNonNegative ==
    (Fetched /\ FeedUsable /\ LimitOf(input.limit) >= 0) =>
        FirstItemsReturned(LimitOf(input.limit))

\* a feed of three items was fetched with limit 2 and the first two came back
C13_Witness ==
    /\ Fetched /\ FeedUsable
    /\ input.limit = Num(2)
    /\ Len(input.parse.feed.v.items.v) = 3
    /\ Len(output.outcome.value.v) = 2
    /\ input.parse.feed.v.items.v[1] # input.parse.feed.v.items.v[2]

\* the fetch or the parse failed: the parser threw, there is no feed, the
\* feed has no list of items, or an item within the limit is null
FeedFailed ==
    \/ input.parse.kind = "rejected"
    \/ input.parse.feed.t # "object"
    \/ input.parse.feed.v.items.t # "array"
    \/ LET items == input.parse.feed.v.items.v
       IN  \E i \in 1..Len(items) :
              /\ items[i].t \in {"null", "undefined"}
              /\ (i <= LimitOf(input.limit)
                  \/ (LimitOf(input.limit) < 0 /\ i <= Len(items) + LimitOf(input.limit)))

\* C14: on any fetch or parse failure fetchArticles returns an empty
\* sequence: it raises no exception and returns no sample data.
C14_EmptyOnFailure ==
    (Fetched /\ FeedFailed) =>
        /\ output.outcome.kind = "return"
        /\ output.outcome.value = Arr(<<>>)
        /\ output.outcome.logs # <<>>

\* the feed came with null in place of its items, and an empty list came back
C14_Witness ==
    /\ Fetched
    /\ input.parse.kind = "resolved"
    /\ input.parse.feed = Obj([items |-> Null])
    /\ output.outcome = Return(Arr(<<>>), <<"error: Error fetching Medium RSS:">>)

----------------------------------------------------------------------------
(* The text functions. A string is the sequence of its characters. *)

\* characters a content string may hold
MaxLen == 4

\* largest maxLength an excerpt is asked for
MaxExcerpt == 3

\* maxLength: number = 200
DefaultMaxLength == 200

\* the characters \s matches and trim() removes
Whitespace == {" ", "\n"}

\* the characters of the content strings
Alphabet == {"<", ">", " ", "\n", "a"}

Contents == SeqsUpTo(Alphabet, MaxLen)

RECURSIVE StripTags(_)

\* plausible slip: the markup is left in
StripTagsNone(s) == s

\* s.replace(/<[^>]*>/g, ' '): the leftmost < that has a > after it, up to
\* the first such >, becomes one space; the search goes on behind it
StripTags(s) ==
    IF \E i \in 1..Len(s) : s[i] = "<" /\ \E j \in (i + 1)..Len(s) : s[j] = ">"
    THEN LET opens(i) == s[i] = "<" /\ \E j \in (i + 1)..Len(s) : s[j] = ">"
             i == CHOOSE k \in 1..Len(s) : opens(k) /\ \A l \in 1..(k - 1) : ~opens(l)
             j == CHOOSE k \in (i + 1)..Len(s) :
                      s[k] = ">" /\ \A l \in (i + 1)..(k - 1) : s[l] # ">"
         IN  SubSeq(s, 1, i - 1) \o <<" ">> \o StripTags(SubSeq(s, j + 1, Len(s)))
    ELSE s

RECURSIVE CollapseWhitespace(_)
\* s.replace(/\s+/g, ' '): every run of whitespace becomes one space
CollapseWhitespace(s) ==
    IF s = <<>> THEN <<>>
    ELSE IF Head(s) \in Whitespace
         THEN IF Len(s) > 1 /\ s[2] \in Whitespace
              THEN CollapseWhitespace(Tail(s))
              ELSE <<" ">> \o CollapseWhitespace(Tail(s))
         ELSE <<Head(s)>> \o CollapseWhitespace(Tail(s))

RECURSIVE Trim(_)
\* s.trim()
Trim(s) ==
    IF s = <<>> THEN <<>>
    ELSE IF Head(s) \in Whitespace THEN Trim(Tail(s))
    ELSE IF s[Len(s)] \in Whitespace THEN Trim(SubSeq(s, 1, Len(s) - 1))
    ELSE s

\* s.substring(0, end) for end >= 0
Substring(s, end) == SubSeq(s, 1, IF end > Len(s) THEN Len(s) ELSE end)

Ellipsis == <<".", ".", ".">>

\* the parameter maxLength, with its default
MaxLengthOf(maxLength) == IF maxLength = Undefined THEN DefaultMaxLength ELSE maxLength.v

\* const cleanText = content.replace(/<[^>]*>/g, ' ').replace(/\s+/g, ' ').trim()
CleanText(content) == Trim(CollapseWhitespace(StripTags(content)))

\* plausible slip: the ellipsis is appended to every excerpt
extractExcerptAlwaysEllipsis(content, maxLength) ==
    LET cleanText == CleanText(content)
    IN  Trim(Substring(cleanText, MaxLengthOf(maxLength))) \o Ellipsis

extractExcerpt(content, maxLength) ==
    LET cleanText == CleanText(content)
    IN  IF Len(cleanText) <= MaxLengthOf(maxLength) THEN cleanText
        ELSE Trim(Substring(cleanText, MaxLengthOf(maxLength))) \o Ellipsis

ExcerptInit ==
    /\ ModuleLoaded(NoEnv, {})
    /\ input \in {[fn |-> "extractExcerpt", content |-> c, maxLength |-> m] :
                     c \in Contents, m \in {Undefined} \cup {Num(n) : n \in 0..MaxExcerpt}}
    /\ output = NoOutput

\* extractExcerpt(content, maxLength)
ExtractExcerpt ==
    /\ input.fn = "extractExcerpt"
    /\ output = NoOutput
    /\ output' = [fn |-> "extractExcerpt",
                  results |-> <<extractExcerpt(input.content, input.maxLength)>>]
    /\ UNCHANGED <<Repository, input>>

\* extractExcerpt(excerpt, maxLength) on the excerpt just returned
ExtractExcerptAgain ==
    /\ output.fn = "extractExcerpt"
    /\ Len(output.results) = 1
    /\ output' = [output EXCEPT
                    !.results = Append(@, extractExcerpt(output.results[1], input.maxLength))]
    /\ UNCHANGED <<Repository, input>>

ExcerptNext == ExtractExcerpt \/ ExtractExcerptAgain

SpecExcerpt == ExcerptInit /\ [][ExcerptNext]_vars

(* Properties of extractExcerpt *)

Excerpted == output.fn = "extractExcerpt"

\* a < with a > somewhere after it
HasTag(s) == \E i \in 1..Len(s) : \E j \in (i + 1)..Len(s) : s[i] = "<" /\ s[j] = ">"

\* no tag, single spaces as the only whitespace, none of it at either end
IsClean(s) ==
    /\ ~HasTag(s)
    /\ \A i \in 1..Len(s) : s[i] # "\n"
    /\ \A i \in 1..(Len(s) - 1) : ~(s[i] = " " /\ s[i + 1] = " ")
    /\ s # <<>> => (s[1] # " " /\ s[Len(s)] # " ")

\* s with the tags and the whitespace taken out
Letters(s) == SelectSeq(StripTags(s), LAMBDA c : c \notin Whitespace)

\* C15: for every content and every maxLength >= 0 extractExcerpt returns the
\* stripped, collapsed and trimmed text itself when it is no longer than
\* maxLength, and otherwise its first maxLength characters, trimmed, followed
\* by '...'; the result has no markup tag and at most maxLength + 3
\* characters.
C15_ExcerptShape ==
    Excerpted =>
        LET m == MaxLengthOf(input.maxLength)
            clean == CleanText(input.content)
            got == output.results[1]
        IN  /\ IsClean(clean)
            /\ SelectSeq(clean, LAMBDA c : c # " ") = Letters(input.content)
            /\ Len(clean) <= m => got = clean
            /\ Len(clean) > m =>
                  /\ Len(got) >= 3
                  /\ SubSeq(got, Len(got) - 2, Len(got)) = Ellipsis
                  /\ LET kept == SubSeq(got, 1, Len(got) - 3)
                     IN  /\ kept = Trim(SubSeq(clean, 1, m))
                         /\ IsClean(kept)
            /\ ~HasTag(got)
            /\ Len(got) <= m + 3

\* a text with a tag in it that is too long for maxLength was cut
C15_Witness ==
    /\ Excerpted
    /\ HasTag(input.content)
    /\ input.maxLength = Num(1)
    /\ output.results[1] = <<"a", ".", ".", ".">>

Twice == Excerpted /\ Len(output.results) = 2

CutAfterSpace ==
    LET m == MaxLengthOf(input.maxLength)
        clean == CleanText(input.content)
    IN  Len(clean) > m /\ m > 0 /\ clean[m] = " "

----------------------------------------------------------------------------
(* calculateReadingTime *)

\* words a text may hold
MaxWords == 201

\* const wordsPerMinute = 200
wordsPerMinute == 200

\* the text of n words, each the letter a, with sep between two words and pad
\* at both ends
PlainText(n, sep, pad) ==
    LET step == 1 + Len(sep)
        body == [p \in 1..(IF n = 0 THEN 0 ELSE n + (n - 1) * Len(sep)) |->
                    IF (p - 1) % step = 0 THEN "a" ELSE sep[(p - 1) % step]]
    IN  pad \o body \o pad

\* the whitespace between two words, and around the text
Separators == {<<" ">>, <<"\n">>, <<" ", "\n">>}
Paddings == {<<>>, <<" ">>}

PlainTexts ==
    {PlainText(n, sep, pad) : n \in 0..MaxWords, sep \in Separators, pad \in Paddings}

\* s.split(/\s+/).length: one piece more than there are runs of whitespace
\* (the empty string splits into one empty piece)
SplitLength(s) ==
    1 + Cardinality({i \in 1..Len(s) : s[i] \in Whitespace /\ (i = 1 \/ s[i - 1] \notin Whitespace)})

\* Math.ceil(a / b) for a >= 0 and b > 0
MathCeil(a, b) == (a + b - 1) \div b

calculateReadingTime(content) ==
    LET plainText == StripTags(content)
        wordCount == SplitLength(Trim(plainText))
    IN  MathCeil(wordCount, wordsPerMinute)

ReadingTimeInit ==
    /\ ModuleLoaded(NoEnv, {})
    /\ input \in {[fn |-> "calculateReadingTime", content |-> c] : c \in PlainTexts}
    /\ output = NoOutput

\* calculateReadingTime(content)
CalculateReadingTime ==
    /\ input.fn = "calculateReadingTime"
    /\ output = NoOutput
    /\ output' = [fn |-> "calculateReadingTime", minutes |-> calculateReadingTime(input.content)]
    /\ UNCHANGED <<Repository, input>>

ReadingTimeNext == CalculateReadingTime

SpecReadingTime == ReadingTimeInit /\ [][ReadingTimeNext]_vars

(* Properties of calculateReadingTime *)

\* the number of whitespace-separated words of s
WordsIn(s) ==
    Cardinality({i \in 1..Len(s) : s[i] \notin Whitespace /\ (i = 1 \/ s[i - 1] \in Whitespace)})

\* C17: for a plain text of N whitespace-separated words (N >= 0)
\* calculateReadingTime returns ceil(N / 200), which is at least 1 whenever
\* N >= 1.
C17_CeilOfWordsOver200 ==
    output.fn = "calculateReadingTime" =>
        LET N == WordsIn(input.content)
        IN  /\ output.minutes * wordsPerMinute >= N
            /\ (output.minutes - 1) * wordsPerMinute < N
            /\ N >= 1 => output.minutes >= 1

----------------------------------------------------------------------------
(* extractFirstImage *)

\* elements a content may be written from
MaxElements == 2

\* the attributes an <img> tag may carry, each with its name and its value
Attribute(name, value) == [name |-> name, value |-> value]
AltAttribute == Attribute(<<"a", "l", "t">>, <<"x">>)
DataSrcAttribute == Attribute(<<"d", "a", "t", "a", "-", "s", "r", "c">>, <<"w">>)
SrcAttributes == {Attribute(<<"s", "r", "c">>, v) : v \in {<<"u">>, <<"v">>}}

\* the elements of a content: a letter, a <p> tag, an <img> tag with up to
\* two attributes of different names
Elements ==
    LET attrs == {AltAttribute, DataSrcAttribute} \cup SrcAttributes
    IN  {[kind |-> "text"], [kind |-> "p"]}
        \cup {[kind |-> "img", attrs |-> q] :
                 q \in {r \in SeqsUpTo(attrs, 2) : Len(r) = 2 => r[1].name # r[2].name}}

RECURSIVE Flatten(_)
\* the concatenation of a sequence of strings
Flatten(parts) == IF parts = <<>> THEN <<>> ELSE Head(parts) \o Flatten(Tail(parts))

\* the markup of an element
Markup(el) ==
    CASE el.kind = "text" -> <<"a">>
      [] el.kind = "p" -> <<"<", "p", ">">>
      [] el.kind = "img" ->
            <<"<", "i", "m", "g">>
            \o Flatten([i \in 1..Len(el.attrs) |->
                          <<" ">> \o el.attrs[i].name \o <<"=", "\"">>
                          \o el.attrs[i].value \o <<"\"">>])
            \o <<">">>

\* the content string of a sequence of elements
Render(els) == Flatten([i \in 1..Len(els) |-> Markup(els[i])])

\* s has the characters of lit from position i on
LiteralAt(s, i, lit) == i + Len(lit) - 1 <= Len(s) /\ SubSeq(s, i, i + Len(lit) - 1) = lit

\* src="([^"]+)" matches at q: the literal, then one or more characters that
\* are no quote, then a quote
SrcAt(s, q) ==
    /\ LiteralAt(s, q, <<"s", "r", "c", "=", "\"">>)
    /\ q + 5 <= Len(s) /\ s[q + 5] # "\""
    /\ \E e \in (q + 6)..Len(s) : s[e] = "\""

\* the positions q at which <img[^>]+ started at p can hand over to src=":
\* at least one character after <img, none of them a >
Handovers(s, p) ==
    {q \in (p + 5)..Len(s) : SrcAt(s, q) /\ \A k \in (p + 4)..(q - 1) : s[k] # ">"}

\* the pattern matches with its < at p
ImgAt(s, p) == LiteralAt(s, p, <<"<", "i", "m", "g">>) /\ Handovers(s, p) # {}

\* [^>]+ is greedy: of the positions it can hand over at, the last
Handover(s, p) == CHOOSE q \in Handovers(s, p) : \A r \in Handovers(s, p) : q >= r

\* content.match(/<img[^>]+src="([^"]+)"/), and group 1 of the leftmost match
extractFirstImage(content) ==
    IF \E p \in 1..Len(content) : ImgAt(content, p)
    THEN LET p == CHOOSE k \in 1..Len(content) :
                      ImgAt(content, k) /\ \A l \in 1..(k - 1) : ~ImgAt(content, l)
             q == Handover(content, p)
             e == CHOOSE k \in (q + 6)..Len(content) :
                      content[k] = "\"" /\ \A l \in (q + 6)..(k - 1) : content[l] # "\""
         IN  Str(SubSeq(content, q + 5, e - 1))
    ELSE Undefined

ImageInit ==
    /\ ModuleLoaded(NoEnv, {})
    /\ input \in {[fn |-> "extractFirstImage", elements |-> els, content |-> Render(els)] :
                     els \in SeqsUpTo(Elements, MaxElements)}
    /\ output = NoOutput

\* extractFirstImage(content)
ExtractFirstImage ==
    /\ input.fn = "extractFirstImage"
    /\ output = NoOutput
    /\ output' = [fn |-> "extractFirstImage", src |-> extractFirstImage(input.content)]
    /\ UNCHANGED <<Repository, input>>

ImageNext == ExtractFirstImage

SpecImage == ImageInit /\ [][ImageNext]_vars

(* Properties of extractFirstImage *)

\* the <img> elements of the content, in order
ImgElements == SelectSeq(input.elements, LAMBDA el : el.kind = "img")

\* the value of the src attribute of an <img> element, if it has one
SrcOf(el) ==
    IF \E i \in 1..Len(el.attrs) : el.attrs[i] \in SrcAttributes
    THEN Str((CHOOSE a \in {el.attrs[i] : i \in 1..Len(el.attrs)} : a \in SrcAttributes).value)
    ELSE Undefined

\* C18: extractFirstImage returns the src of the first <img> tag of the
\* content, and nothing exactly when the content has no <img> tag.
C18_SrcOfFirstImg ==
    output.fn = "extractFirstImage" =>
        /\ output.src = Undefined <=> ImgElements = <<>>
        /\ ImgElements # <<>> => output.src = SrcOf(ImgElements[1])

----------------------------------------------------------------------------
(* Properties of the remote queries of the event repository *)

\* C19: an invocation issues exactly one remote query when the repository is
\* configured and none when it is not; a query that failed is not issued
\* again, and the invocation finishes with the reply of that one query.
C19_OneQueryNoRetry ==
    /\ \A call \in BagToSet(inflight) : StartConfigured /\ call.queries = 1
    /\ Done =>
          /\ last.queries = (IF StartConfigured THEN 1 ELSE 0)
          /\ last.resp.kind \in (IF StartConfigured THEN {"resolved", "rejected"} ELSE {"none"})

\* a query that reported an error ended its invocation, after that one query
C19_Witness ==
    /\ StartConfigured
    /\ ErrorReported
    /\ last.queries = 1
    /\ last.outcome.kind = "return"

----------------------------------------------------------------------------
(* The three operations on one configuration and one table, every query   *)
(* answered from the table                                                  *)

\* rows the fixed table may hold
MaxTableRows == 2

\* the tables: every choice of rows of the pool, up to the bound
FixedTables ==
    {tbl \in SUBSET {RowPool[i] : i \in 1..Len(RowPool)} : Cardinality(tbl) <= MaxTableRows}

\* an operation run from call to return, its query answered from the table
RunOnTable(op, slug) ==
    IF ~isSupabaseConfigured
    THEN NotConfiguredOutcome(op, slug, sampleEvents)
    ELSE AwaitedOutcome(op, slug, sampleEvents, Answer(op, slug, events))

AgreeInit ==
    /\ \E e \in EnvValues, tbl \in FixedTables : ModuleLoaded(e, tbl)
    /\ input = [fn |-> "repository"]
    /\ output = [fn |-> "repository", getEvents |-> NoOutcome,
                 getFeaturedEvents |-> NoOutcome, getEventBySlug |-> {}]

\* getEvents()
ListEvents ==
    /\ output.fn = "repository"
    /\ output.getEvents = NoOutcome
    /\ output' = [output EXCEPT !.getEvents = RunOnTable("getEvents", "")]
    /\ UNCHANGED <<Repository, input>>

\* getFeaturedEvents()
ListFeaturedEvents ==
    /\ output.fn = "repository"
    /\ output.getFeaturedEvents = NoOutcome
    /\ output' = [output EXCEPT !.getFeaturedEvents = RunOnTable("getFeaturedEvents", "")]
    /\ UNCHANGED <<Repository, input>>

\* getEventBySlug(e.slug) for an event e that getEvents() returned
LookUpListedEvent ==
    /\ output.fn = "repository"
    /\ output.getEvents.kind = "return"
    /\ \E i \in 1..Len(output.getEvents.value.v) :
          LET e == output.getEvents.value.v[i]
          IN  /\ e.v.slug.t = "string"
              /\ \A l \in output.getEventBySlug : l.slug # e.v.slug.v
              /\ output' = [output EXCEPT !.getEventBySlug =
                              @ \cup {[slug |-> e.v.slug.v,
                                       outcome |-> RunOnTable("getEventBySlug", e.v.slug.v)]}]
    /\ UNCHANGED <<Repository, input>>

AgreeNext == ListEvents \/ ListFeaturedEvents \/ LookUpListedEvent

SpecAgree == AgreeInit /\ [][AgreeNext]_vars

(* Properties of the three operations taken together *)

Listed == output.fn = "repository" /\ output.getEvents.kind = "return"

\* every event getFeaturedEvents returned is among those getEvents returned
FeaturedAmongEvents ==
    (Listed /\ output.getFeaturedEvents.kind = "return") =>
        \A i \in 1..Len(output.getFeaturedEvents.value.v) :
            \E j \in 1..Len(output.getEvents.value.v) :
                output.getFeaturedEvents.value.v[i] = output.getEvents.value.v[j]

\* getEventBySlug(e.slug) returned an event with the id of e
FoundWithSameId(e) ==
    \A l \in output.getEventBySlug :
        l.slug = e.v.slug.v =>
            /\ l.outcome.kind = "return"
            /\ l.outcome.value.t = "object"
            /\ l.outcome.value.v.id = e.v.id

\* no other row of the table has the slug of e
SlugUnique(e) == Cardinality({r \in events : Get(r, "slug") = e.v.slug}) <= 1

\* C20 (as claimed): on one configuration and one table, with no errors,
\* every event getFeaturedEvents() returns is also returned by getEvents(),
\* and for every e of getEvents(), getEventBySlug(e.slug) returns an event
\* with the id of e.
C20_OperationsAgree ==
    /\ FeaturedAmongEvents
    /\ Listed => \A i \in 1..Len(output.getEvents.value.v) :
                    FoundWithSameId(output.getEvents.value.v[i])

\* C20 (amended): the first half holds when the repository is not configured
\* or the table has a featured upcoming row; the second half holds for every
\* e when the repository is not configured, and otherwise for every e whose
\* slug no other row of the table has.
C20_OperationsAgreeOnRowsFound ==
    /\ (~isSupabaseConfigured \/ FeaturedUpcoming # {}) => FeaturedAmongEvents
    /\ Listed => \A i \in 1..Len(output.getEvents.value.v) :
                    LET e == output.getEvents.value.v[i]
                    IN  (~isSupabaseConfigured \/ SlugUnique(e)) => FoundWithSameId(e)

\* configured, a table of two rows, one of them featured and upcoming: both
\* lists were returned and each listed event was looked up by its slug
C20_Witness ==
    /\ isSupabaseConfigured
    /\ Cardinality(events) = 2
    /\ Cardinality(FeaturedUpcoming) = 1
    /\ Listed
    /\ Len(output.getEvents.value.v) = 2
    /\ output.getFeaturedEvents.kind = "return"
    /\ Len(output.getFeaturedEvents.value.v) = 1
    /\ Cardinality(output.getEventBySlug) = 2
    /\ \A l \in output.getEventBySlug : l.outcome.value.t = "object"

====
